---- MODULE Spec2Model ----
(***************************************************************************)
(* Model of src/worker.js: a webhook handler that turns the text of an     *)
(* inbound chat message into a WAV voice message.                          *)
(*                                                                         *)
(*   Spec     one invocation of the fetch handler, one step per await of   *)
(*            an external call, with every outcome the platform, the       *)
(*            provider and the network can produce.                        *)
(*   SpecWav  the pure function pcmToWav applied to bounded inputs.        *)
(*                                                                         *)
(* Strings the code inspects are sequences of one-character strings; byte  *)
(* arrays (Uint8Array) are functions from 0..n-1 to 0..255.                *)
(***************************************************************************)
EXTENDS Integers, Sequences, FiniteSets, TLC

VARIABLES
    request,    \* the inbound HTTP request: method, body kind, message text, chat id
    pc,         \* position of the invocation (which await it is suspended on)
    state,      \* pipeline state of spec section 4.4 the run is in
    trace,      \* outbound calls and their returns, in order
    hmResult,   \* how handleMessage ended: "none" | "returned" | "threw"
    ack,        \* HTTP status of the Response the fetch handler returned (0: none yet)
    data,       \* the provider's response body as generateSpeech read it
    audioData,  \* what generateSpeech returned to handleMessage
    encIn,      \* arguments of the last pcmToWav call
    encOut,     \* result of the last pcmToWav call
    parked      \* locals of the other invocation, suspended at an await (SpecConc)

vars ==
    <<request, pc, state, trace, hmResult, ack, data, audioData, encIn, encOut,
      parked>>

----------------------------------------------------------------------------
(* Bounds *)

MaxTextLen == 2
MaxPayloadLen == 4
MaxPcmLen == 4
MaxLivePayloadLen == 2

SeqsUpTo(S, n) == UNION {[1..k -> S] : k \in 0..n}

----------------------------------------------------------------------------
(* Strings *)

StartCommand == <<"/", "s", "t", "a", "r", "t">>

\* String.prototype.trim: white space removed from both ends.
WhiteSpace == {" "}

RECURSIVE TrimStart(_)
TrimStart(s) ==
    IF s # <<>> /\ Head(s) \in WhiteSpace THEN TrimStart(Tail(s)) ELSE s

RECURSIVE TrimEnd(_)
TrimEnd(s) ==
    IF s # <<>> /\ s[Len(s)] \in WhiteSpace
    THEN TrimEnd(SubSeq(s, 1, Len(s) - 1))
    ELSE s

Trim(s) == TrimEnd(TrimStart(s))

\* message.text: a string, or absent (undefined).
AbsentText == [present |-> FALSE, chars |-> <<>>]
Text(s) == [present |-> TRUE, chars |-> s]

\* text === '/start'
IsStartCommandTrimmed(text) == text.present /\ Trim(text.chars) = StartCommand
IsStartCommand(text) == text.present /\ text.chars = StartCommand

\* !text || text.trim() === ''
IsBlankUntrimmed(text) == ~text.present \/ text.chars = <<>>
IsBlank(text) ==
    \/ ~text.present
    \/ text.chars = <<>>
    \/ Trim(text.chars) = <<>>

----------------------------------------------------------------------------
(* pcmToWav *)

TwoTo8 == 256
TwoTo16 == 65536
TwoTo24 == 16777216

CharCode ==
    [c \in {"R", "I", "F", "W", "A", "V", "E", "f", "m", "t", " ", "d", "a"} |->
        CASE c = "R" -> 82 [] c = "I" -> 73 [] c = "F" -> 70 [] c = "W" -> 87
          [] c = "A" -> 65 [] c = "V" -> 86 [] c = "E" -> 69 [] c = "f" -> 102
          [] c = "m" -> 109 [] c = "t" -> 116 [] c = " " -> 32 [] c = "d" -> 100
          [] c = "a" -> 97]

ByteLength(a) == Cardinality(DOMAIN a)

\* new ArrayBuffer(n): n zero bytes at offsets 0..n-1.
ArrayBuffer(n) == [i \in 0..(n - 1) |-> 0]

\* view.setUint8(offset, value)
SetUint8(view, offset, value) == [view EXCEPT ![offset] = value % TwoTo8]

\* view.setUint16(offset, value, true): value modulo 2^16, low byte first.
SetUint16(view, offset, value) ==
    LET v == value % TwoTo16
    IN  [view EXCEPT ![offset] = v % TwoTo8, ![offset + 1] = v \div TwoTo8]

\* view.setUint32(offset, value, true): value modulo 2^32, low byte first.
\* Byte k of the field is (value \div 256^k) % 256, which is what reduction
\* modulo 2^32 leaves of a non-negative value.
SetUint32BigEndian(view, offset, value) ==
    [view EXCEPT ![offset + 3] = value % TwoTo8,
                 ![offset + 2] = (value \div TwoTo8) % TwoTo8,
                 ![offset + 1] = (value \div TwoTo16) % TwoTo8,
                 ![offset] = (value \div TwoTo24) % TwoTo8]
SetUint32(view, offset, value) ==
    [view EXCEPT ![offset] = value % TwoTo8,
                 ![offset + 1] = (value \div TwoTo8) % TwoTo8,
                 ![offset + 2] = (value \div TwoTo16) % TwoTo8,
                 ![offset + 3] = (value \div TwoTo24) % TwoTo8]

\* writeString: one setUint8 per character, from offset on.
RECURSIVE writeStringFrom(_, _, _, _)
writeStringFrom(view, offset, string, i) ==
    IF i > Len(string) THEN view
    ELSE writeStringFrom(SetUint8(view, offset + (i - 1), CharCode[string[i]]),
                         offset, string, i + 1)
writeString(view, offset, string) == writeStringFrom(view, offset, string, 1)

\* wavData.set(pcmData, 44)
TypedArraySet(target, source, offset) ==
    [i \in DOMAIN target |->
        IF i >= offset /\ i < offset + ByteLength(source)
        THEN source[i - offset]
        ELSE target[i]]

pcmToWavByteRatePerChannel(pcmData, sampleRate, channels) ==
    LET bytesPerSample == 2
        blockAlign == channels * bytesPerSample
        byteRate == sampleRate * channels
        dataSize == ByteLength(pcmData)
        fileSize == 36 + dataSize
        b0  == ArrayBuffer(44 + dataSize)
        b1  == writeString(b0, 0, <<"R", "I", "F", "F">>)
        b2  == SetUint32(b1, 4, fileSize)
        b3  == writeString(b2, 8, <<"W", "A", "V", "E">>)
        b4  == writeString(b3, 12, <<"f", "m", "t", " ">>)
        b5  == SetUint32(b4, 16, 16)
        b6  == SetUint16(b5, 20, 1)
        b7  == SetUint16(b6, 22, channels)
        b8  == SetUint32(b7, 24, sampleRate)
        b9  == SetUint32(b8, 28, byteRate)
        b10 == SetUint16(b9, 32, blockAlign)
        b11 == SetUint16(b10, 34, 16)
        b12 == writeString(b11, 36, <<"d", "a", "t", "a">>)
        b13 == SetUint32(b12, 40, dataSize)
    IN  TypedArraySet(b13, pcmData, 44)
pcmToWav(pcmData, sampleRate, channels) ==
    LET bytesPerSample == 2
        blockAlign == channels * bytesPerSample
        byteRate == sampleRate * blockAlign
        dataSize == ByteLength(pcmData)
        fileSize == 36 + dataSize
        b0  == ArrayBuffer(44 + dataSize)
        b1  == writeString(b0, 0, <<"R", "I", "F", "F">>)
        b2  == SetUint32(b1, 4, fileSize)
        b3  == writeString(b2, 8, <<"W", "A", "V", "E">>)
        b4  == writeString(b3, 12, <<"f", "m", "t", " ">>)
        b5  == SetUint32(b4, 16, 16)
        b6  == SetUint16(b5, 20, 1)
        b7  == SetUint16(b6, 22, channels)
        b8  == SetUint32(b7, 24, sampleRate)
        b9  == SetUint32(b8, 28, byteRate)
        b10 == SetUint16(b9, 32, blockAlign)
        b11 == SetUint16(b10, 34, 16)
        b12 == writeString(b11, 36, <<"d", "a", "t", "a">>)
        b13 == SetUint32(b12, 40, dataSize)
    IN  TypedArraySet(b13, pcmData, 44)

----------------------------------------------------------------------------
(* atob and Uint8Array.from *)

B64Alphabet ==
    <<"A", "B", "C", "D", "E", "F", "G", "H", "I", "J", "K", "L", "M",
      "N", "O", "P", "Q", "R", "S", "T", "U", "V", "W", "X", "Y", "Z",
      "a", "b", "c", "d", "e", "f", "g", "h", "i", "j", "k", "l", "m",
      "n", "o", "p", "q", "r", "s", "t", "u", "v", "w", "x", "y", "z",
      "0", "1", "2", "3", "4", "5", "6", "7", "8", "9", "+", "/">>

B64Chars == {B64Alphabet[i] : i \in DOMAIN B64Alphabet}
B64Value(c) == (CHOOSE i \in DOMAIN B64Alphabet : B64Alphabet[i] = c) - 1

IsWhitespaceChar(c) == c \in WhiteSpace
IsB64Char(c) == c \in B64Chars

\* Bytes of a run of base64 characters; a final group of 2 or 3 characters
\* gives 1 or 2 bytes, its spare low bits dropped.
RECURSIVE B64Bytes(_)
B64Bytes(s) ==
    IF Len(s) >= 4 THEN
        LET n == B64Value(s[1]) * 262144 + B64Value(s[2]) * 4096
                 + B64Value(s[3]) * 64 + B64Value(s[4])
        IN  <<n \div TwoTo16, (n \div TwoTo8) % TwoTo8, n % TwoTo8>>
            \o B64Bytes(SubSeq(s, 5, Len(s)))
    ELSE IF Len(s) = 3 THEN
        LET n == (B64Value(s[1]) * 4096 + B64Value(s[2]) * 64 + B64Value(s[3])) \div 4
        IN  <<n \div TwoTo8, n % TwoTo8>>
    ELSE IF Len(s) = 2 THEN
        <<(B64Value(s[1]) * 64 + B64Value(s[2])) \div 16>>
    ELSE <<>>

\* atob(s): white space removed; if the length is then a multiple of 4, one or
\* two trailing "=" removed; throws on a length of 1 modulo 4 or on any other
\* character outside the alphabet.
atobNeverThrows(s) ==
    [threw |-> FALSE, bytes |-> B64Bytes(SelectSeq(s, LAMBDA c : IsB64Char(c)))]
atob(s) ==
    LET stripped == SelectSeq(s, LAMBDA c : ~IsWhitespaceChar(c))
        n == Len(stripped)
        unpadded ==
            IF n > 0 /\ n % 4 = 0 /\ stripped[n] = "="
            THEN IF stripped[n - 1] = "="
                 THEN SubSeq(stripped, 1, n - 2)
                 ELSE SubSeq(stripped, 1, n - 1)
            ELSE stripped
        bad == \/ Len(unpadded) % 4 = 1
               \/ \E i \in DOMAIN unpadded : ~IsB64Char(unpadded[i])
    IN  IF bad THEN [threw |-> TRUE, bytes |-> <<>>]
        ELSE [threw |-> FALSE, bytes |-> B64Bytes(unpadded)]

\* Uint8Array.from(binaryString, c => c.charCodeAt(0))
Uint8ArrayFrom(bytes) == [i \in 0..(Len(bytes) - 1) |-> bytes[i + 1]]

----------------------------------------------------------------------------
(* Inputs and outcomes of the external calls *)

TextChars == {" ", "a"}

Texts ==
    {AbsentText}
    \cup {Text(s) : s \in SeqsUpTo(TextChars, MaxTextLen)}
    \cup {Text(StartCommand), Text(<<" ">> \o StartCommand),
          Text(StartCommand \o <<" ">>), Text(StartCommand \o <<"a">>)}

ChatIds == {101}

\* request.method, whether request.json() parses, whether update.message is set.
Requests ==
    {[method |-> m, body |-> "none", text |-> AbsentText, chatId |-> 101] :
        m \in {"GET", "PUT"}}
    \cup {[method |-> "POST", body |-> b, text |-> AbsentText, chatId |-> 101] :
        b \in {"invalid", "nomessage"}}
    \cup {[method |-> "POST", body |-> "message", text |-> t, chatId |-> c] :
        t \in Texts, c \in ChatIds}

\* A fetch() either rejects (network failure) or resolves with a status.
Statuses == {200, 400}
FetchOutcomes ==
    {[rejected |-> TRUE, status |-> 0]}
    \cup {[rejected |-> FALSE, status |-> s] : s \in Statuses}

\* response.ok
RespOkAlways(status) == TRUE
RespOk(status) == status >= 200 /\ status <= 299

\* The provider's JSON body: response.json() rejects (parsed = FALSE), or the
\* object has the first `depth` steps of the path
\* candidates, [0], content, parts, [0], inlineData, data
\* and, when it has them all, the string `payload` at its end.
PathLen == 7
PayloadChars == {"A", "/", "=", " "}
Payloads == SeqsUpTo(PayloadChars, MaxPayloadLen)
NoBody == [parsed |-> FALSE, depth |-> 0, payload |-> <<>>]
GeminiBodies ==
    {NoBody}
    \cup {[parsed |-> TRUE, depth |-> d, payload |-> <<>>] : d \in 0..(PathLen - 1)}
    \cup {[parsed |-> TRUE, depth |-> PathLen, payload |-> p] : p \in Payloads}

Undefined == [defined |-> FALSE, chars |-> <<>>]

\* data?.candidates?.[0]?.content?.parts?.[0]?.inlineData?.data
OptionalChain(body) ==
    IF body.depth < PathLen THEN Undefined
    ELSE [defined |-> TRUE, chars |-> body.payload]

\* !audioBase64
FalsyOnlyUndefined(v) == ~v.defined
Falsy(v) == ~v.defined \/ v.chars = <<>>

Null == [isNull |-> TRUE, wav |-> <<>>]

SampleRate == 24000
Channels == 1

\* generateSpeech from response.json() on: what it returns, and the pcmToWav
\* call it made (encoded) with its argument.
generateSpeechBody(body) ==
    LET audioBase64 == OptionalChain(body)
        decoded == atob(audioBase64.chars)
        audioBuffer == Uint8ArrayFrom(decoded.bytes)
        none == [result |-> Null, encoded |-> FALSE, pcm |-> <<>>]
    IN  IF ~body.parsed THEN none
        ELSE IF Falsy(audioBase64) THEN none
        ELSE IF decoded.threw THEN none
        ELSE [result |-> [isNull |-> FALSE,
                          wav |-> pcmToWav(audioBuffer, SampleRate, Channels)],
              encoded |-> TRUE,
              pcm |-> audioBuffer]

----------------------------------------------------------------------------
(* The trace of outbound calls *)

CallEvSharedChat(op, arg) ==
    [ev |-> "call", op |-> op, arg |-> arg,
     chat |-> IF parked.pc = "absent" THEN request.chatId ELSE parked.request.chatId,
     rejected |-> FALSE, status |-> 0]
CallEv(op, arg) ==
    [ev |-> "call", op |-> op, arg |-> arg, chat |-> request.chatId,
     rejected |-> FALSE, status |-> 0]
RetEv(op, arg, o) ==
    [ev |-> "ret", op |-> op, arg |-> arg, chat |-> request.chatId,
     rejected |-> o.rejected, status |-> o.status]

Resolved == [rejected |-> FALSE, status |-> 0]

Called(op, arg) ==
    \E i \in DOMAIN trace :
        trace[i].ev = "call" /\ trace[i].op = op /\ trace[i].arg = arg
CalledOp(op) ==
    \E i \in DOMAIN trace : trace[i].ev = "call" /\ trace[i].op = op

----------------------------------------------------------------------------
(* The fetch handler and handleMessage *)

\* The locals of one invocation. Nothing else exists: the module has no
\* mutable state outside its functions.
StartContext(req) ==
    [request |-> req, pc |-> "fetch", state |-> "Received", trace |-> <<>>,
     hmResult |-> "none", ack |-> 0, data |-> NoBody, audioData |-> Null,
     encIn |-> [pcm |-> <<>>, sampleRate |-> SampleRate, channels |-> Channels],
     encOut |-> <<>>]

Context ==
    [request |-> request, pc |-> pc, state |-> state, trace |-> trace,
     hmResult |-> hmResult, ack |-> ack, data |-> data, audioData |-> audioData,
     encIn |-> encIn, encOut |-> encOut]

\* No other invocation.
NoContext ==
    [StartContext([method |-> "GET", body |-> "none", text |-> AbsentText,
                   chatId |-> 101])
        EXCEPT !.pc = "absent"]

Init ==
    /\ request \in Requests
    /\ pc = "fetch"
    /\ state = "Received"
    /\ trace = <<>>
    /\ hmResult = "none"
    /\ ack = 0
    /\ data = NoBody
    /\ audioData = Null
    /\ encIn = [pcm |-> <<>>, sampleRate |-> SampleRate, channels |-> Channels]
    /\ encOut = <<>>
    /\ parked = NoContext

\* Variant of the dispatch without the `if (update.message)` test of line 17.
FetchDispatchAnyUpdate ==
    /\ pc = "fetch"
    /\ IF request.method = "GET" THEN
            /\ ack' = 200 /\ pc' = "responded"
       ELSE IF request.method # "POST" THEN
            /\ ack' = 405 /\ pc' = "responded"
       ELSE IF request.body = "invalid" THEN
            /\ ack' = 500 /\ pc' = "responded"
       ELSE /\ ack' = ack /\ pc' = "handleMessage"
    /\ UNCHANGED <<request, state, trace, hmResult, data, audioData, encIn, encOut, parked>>

\* fetch(request, env) up to the call of handleMessage.
FetchDispatch ==
    /\ pc = "fetch"
    /\ IF request.method = "GET" THEN
            /\ ack' = 200 /\ pc' = "responded"
       ELSE IF request.method # "POST" THEN
            /\ ack' = 405 /\ pc' = "responded"
       ELSE IF request.body = "invalid" THEN
            /\ ack' = 500 /\ pc' = "responded"
       ELSE IF request.body = "message" THEN
            /\ ack' = ack /\ pc' = "handleMessage"
       ELSE /\ ack' = 200 /\ pc' = "responded"
    /\ UNCHANGED <<request, state, trace, hmResult, data, audioData, encIn, encOut, parked>>

\* handleMessage up to its first await.
HmStartNoAwait ==
    /\ pc = "handleMessage"
    /\ IF IsStartCommand(request.text) THEN
            /\ trace' = Append(trace, CallEv("sendMessage", "welcome"))
            /\ pc' = "await_welcome"
            /\ state' = "Aborted"
       ELSE IF IsBlank(request.text) THEN
            /\ trace' = Append(trace, CallEv("sendMessage", "please"))
            /\ pc' = "await_please"
            /\ state' = "Aborted"
       ELSE /\ trace' = trace \o <<CallEv("sendMessage", "processing"),
                                    CallEv("generateSpeech", "fetch")>>
            /\ pc' = "await_gemini"
            /\ state' = "Synthesizing"
    /\ UNCHANGED <<request, hmResult, ack, data, audioData, encIn, encOut, parked>>
HmStart ==
    /\ pc = "handleMessage"
    /\ IF IsStartCommand(request.text) THEN
            /\ trace' = Append(trace, CallEv("sendMessage", "welcome"))
            /\ pc' = "await_welcome"
            /\ state' = "Aborted"
       ELSE IF IsBlank(request.text) THEN
            /\ trace' = Append(trace, CallEv("sendMessage", "please"))
            /\ pc' = "await_please"
            /\ state' = "Aborted"
       ELSE /\ trace' = Append(trace, CallEv("sendMessage", "processing"))
            /\ pc' = "await_processing"
            /\ state' = "Notifying"
    /\ UNCHANGED <<request, hmResult, ack, data, audioData, encIn, encOut, parked>>

AwaitNotify ==
    {"await_welcome", "await_please", "await_processing", "await_failed",
     "await_generic"}

NotifyOf(p) ==
    CASE p = "await_welcome" -> "welcome"
      [] p = "await_please" -> "please"
      [] p = "await_processing" -> "processing"
      [] p = "await_failed" -> "failed"
      [] p = "await_generic" -> "generic"

\* sendMessage: awaits fetch and never looks at the response; it throws
\* exactly when fetch rejects.
sendMessageThrows(o) == o.rejected

\* The catch block of handleMessage once its own sendMessage has settled:
\* nothing is re-thrown, so only that sendMessage's own failure escapes.
CatchRethrows(notifyThrew) == "threw"
CatchResult(notifyThrew) == IF notifyThrew THEN "threw" ELSE "returned"

\* The await of a sendMessage settles, and handleMessage runs to its next await.
SendMessageReturn(o) ==
    /\ pc \in AwaitNotify
    /\ LET threw == sendMessageThrows(o)
           t1 == Append(trace, RetEv("sendMessage", NotifyOf(pc), o))
       IN  IF pc = "await_generic" THEN
                /\ trace' = t1
                /\ hmResult' = CatchResult(threw)
                /\ pc' = "hm_exit"
                /\ state' = state
           ELSE IF threw THEN
                /\ trace' = Append(t1, CallEv("sendMessage", "generic"))
                /\ hmResult' = hmResult
                /\ pc' = "await_generic"
                /\ state' = "Aborted"
           ELSE IF pc = "await_processing" THEN
                /\ trace' = Append(t1, CallEv("generateSpeech", "fetch"))
                /\ hmResult' = hmResult
                /\ pc' = "await_gemini"
                /\ state' = "Synthesizing"
           ELSE /\ trace' = t1
                /\ hmResult' = "returned"
                /\ pc' = "hm_exit"
                /\ state' = state
    /\ UNCHANGED <<request, ack, data, audioData, encIn, encOut, parked>>

\* generateSpeech returned null: handleMessage sends the failure notification.
SynthesisRetried(t) ==
    /\ trace' = Append(t, CallEv("generateSpeech", "fetch"))
    /\ pc' = "await_gemini"
    /\ state' = "Synthesizing"
    /\ audioData' = Null
SynthesisFailed(t) ==
    /\ trace' = Append(t, CallEv("sendMessage", "failed"))
    /\ pc' = "await_failed"
    /\ state' = "Aborted"
    /\ audioData' = Null

\* The provider fetch settles.
GeminiFetchReturn(o) ==
    /\ pc = "await_gemini"
    /\ LET t1 == Append(trace, RetEv("generateSpeech", "fetch", o))
       IN  IF o.rejected \/ ~RespOk(o.status) THEN SynthesisFailed(t1)
           ELSE /\ trace' = t1
                /\ pc' = "await_gemini_json"
                /\ UNCHANGED <<state, audioData>>
    /\ UNCHANGED <<request, hmResult, ack, data, encIn, encOut, parked>>

\* response.json() of the provider settles; generateSpeech runs to its end and
\* handleMessage to its next await.
GeminiBodyReturn(body) ==
    /\ pc = "await_gemini_json"
    /\ data' = body
    /\ LET r == generateSpeechBody(body)
           t1 == Append(trace, RetEv("generateSpeech", "json",
                                     [rejected |-> ~body.parsed, status |-> 0]))
           t2 == t1 \o <<CallEv("pcmToWav", "encode"),
                         RetEv("pcmToWav", "encode", Resolved)>>
       IN  IF r.result.isNull THEN
                /\ SynthesisFailed(t1)
                /\ UNCHANGED <<encIn, encOut>>
           ELSE /\ encIn' = [pcm |-> r.pcm, sampleRate |-> SampleRate,
                             channels |-> Channels]
                /\ encOut' = r.result.wav
                /\ audioData' = r.result
                /\ trace' = Append(t2, CallEv("sendVoiceMessage", "fetch"))
                /\ pc' = "await_voice"
                /\ state' = "Delivering"
    /\ UNCHANGED <<request, hmResult, ack, parked>>

\* sendVoiceMessage threw: the catch block of handleMessage.
DeliveryFailedSuspends(t) ==
    /\ trace' = t
    /\ pc' = "await_never"
    /\ state' = state
    /\ hmResult' = hmResult
DeliveryFailed(t) ==
    /\ trace' = Append(t, CallEv("sendMessage", "generic"))
    /\ pc' = "await_generic"
    /\ state' = "Aborted"
    /\ hmResult' = hmResult

\* The upload fetch settles.
VoiceFetchReturn(o) ==
    /\ pc = "await_voice"
    /\ LET t1 == Append(trace, RetEv("sendVoiceMessage", "fetch", o))
       IN  IF o.rejected \/ ~RespOk(o.status) THEN DeliveryFailed(t1)
           ELSE /\ trace' = t1
                /\ pc' = "await_voice_json"
                /\ UNCHANGED <<state, hmResult>>
    /\ UNCHANGED <<request, ack, data, audioData, encIn, encOut, parked>>

\* response.json() of the upload settles.
VoiceBodyReturn(parsed) ==
    /\ pc = "await_voice_json"
    /\ LET t1 == Append(trace, RetEv("sendVoiceMessage", "json",
                                     [rejected |-> ~parsed, status |-> 0]))
       IN  IF ~parsed THEN DeliveryFailed(t1)
           ELSE /\ trace' = t1
                /\ pc' = "hm_exit"
                /\ state' = "Done"
                /\ hmResult' = "returned"
    /\ UNCHANGED <<request, ack, data, audioData, encIn, encOut, parked>>

\* handleMessage has ended: the fetch handler answers.
FetchRespond ==
    /\ pc = "hm_exit"
    /\ ack' = IF hmResult = "threw" THEN 500 ELSE 200
    /\ pc' = "responded"
    /\ UNCHANGED <<request, state, trace, hmResult, data, audioData, encIn, encOut, parked>>

Next ==
    \/ FetchDispatch
    \/ HmStart
    \/ \E o \in FetchOutcomes : SendMessageReturn(o)
    \/ \E o \in FetchOutcomes : GeminiFetchReturn(o)
    \/ \E b \in GeminiBodies : GeminiBodyReturn(b)
    \/ \E o \in FetchOutcomes : VoiceFetchReturn(o)
    \/ \E p \in BOOLEAN : VoiceBodyReturn(p)
    \/ FetchRespond

Spec == Init /\ [][Next]_vars

\* The same invocation when every pending external call settles and every
\* continuation is run: no await stays pending for ever. The provider's
\* payloads are the shorter ones.
LiveBodies == {b \in GeminiBodies : Len(b.payload) <= MaxLivePayloadLen}

NextLive ==
    \/ FetchDispatch
    \/ HmStart
    \/ \E o \in FetchOutcomes : SendMessageReturn(o)
    \/ \E o \in FetchOutcomes : GeminiFetchReturn(o)
    \/ \E b \in LiveBodies : GeminiBodyReturn(b)
    \/ \E o \in FetchOutcomes : VoiceFetchReturn(o)
    \/ \E p \in BOOLEAN : VoiceBodyReturn(p)
    \/ FetchRespond

SpecLive == Init /\ [][NextLive]_vars /\ WF_vars(NextLive)

----------------------------------------------------------------------------
(* Two invocations whose awaits interleave *)

\* Two events, of two conversations, are being handled. The event loop runs
\* one invocation at a time and may resume the other one whenever the running
\* one is suspended at an await.
ConcTexts == {Text(StartCommand), Text(<<" ">>), Text(<<"a">>)}
ConcRequests(chat) ==
    {[method |-> "POST", body |-> "message", text |-> t, chatId |-> chat] :
        t \in ConcTexts}
ConcBodies ==
    {NoBody,
     [parsed |-> TRUE, depth |-> PathLen - 1, payload |-> <<>>],
     [parsed |-> TRUE, depth |-> PathLen, payload |-> <<"A">>],
     [parsed |-> TRUE, depth |-> PathLen, payload |-> <<"/", "/">>]}

InitConc ==
    /\ request \in ConcRequests(101)
    /\ pc = "fetch"
    /\ state = "Received"
    /\ trace = <<>>
    /\ hmResult = "none"
    /\ ack = 0
    /\ data = NoBody
    /\ audioData = Null
    /\ encIn = [pcm |-> <<>>, sampleRate |-> SampleRate, channels |-> Channels]
    /\ encOut = <<>>
    /\ parked \in {StartContext(r) : r \in ConcRequests(102)}

\* The running invocation is suspended and the other one resumed.
Switch ==
    /\ parked.pc # "absent"
    /\ parked' = Context
    /\ request' = parked.request
    /\ pc' = parked.pc
    /\ state' = parked.state
    /\ trace' = parked.trace
    /\ hmResult' = parked.hmResult
    /\ ack' = parked.ack
    /\ data' = parked.data
    /\ audioData' = parked.audioData
    /\ encIn' = parked.encIn
    /\ encOut' = parked.encOut

NextConc ==
    \/ FetchDispatch
    \/ HmStart
    \/ \E o \in FetchOutcomes : SendMessageReturn(o)
    \/ \E o \in FetchOutcomes : GeminiFetchReturn(o)
    \/ \E b \in ConcBodies : GeminiBodyReturn(b)
    \/ \E o \in FetchOutcomes : VoiceFetchReturn(o)
    \/ \E p \in BOOLEAN : VoiceBodyReturn(p)
    \/ FetchRespond
    \/ Switch

SpecConc == InitConc /\ [][NextConc]_vars

----------------------------------------------------------------------------
(* pcmToWav on its own: any buffer, sample rate and channel count *)

PcmBytes == {1, 2, 3, 4, 255}
SampleRates == {8000, 24000}
ChannelCounts == {1, 2, 32768}

WavInputs ==
    {[pcm |-> Uint8ArrayFrom(s), sampleRate |-> r, channels |-> c] :
        s \in SeqsUpTo(PcmBytes, MaxPcmLen), r \in SampleRates, c \in ChannelCounts}

InitWav ==
    /\ request = [method |-> "GET", body |-> "none", text |-> AbsentText, chatId |-> 101]
    /\ pc = "wav_call"
    /\ state = "Received"
    /\ trace = <<>>
    /\ hmResult = "none"
    /\ ack = 0
    /\ data = NoBody
    /\ audioData = Null
    /\ encIn \in WavInputs
    /\ encOut = <<>>
    /\ parked = NoContext

Encode ==
    /\ pc = "wav_call"
    /\ encOut' = pcmToWav(encIn.pcm, encIn.sampleRate, encIn.channels)
    /\ pc' = "wav_done"
    /\ UNCHANGED <<request, state, trace, hmResult, ack, data, audioData, encIn, parked>>

NextWav == Encode

SpecWav == InitWav /\ [][NextWav]_vars

----------------------------------------------------------------------------
(* Properties *)

\* What the properties read off the trace.
Returned(op, arg) ==
    \E i \in DOMAIN trace :
        trace[i].ev = "ret" /\ trace[i].op = op /\ trace[i].arg = arg
Rejected(op, arg) ==
    \E i \in DOMAIN trace :
        /\ trace[i].ev = "ret" /\ trace[i].op = op /\ trace[i].arg = arg
        /\ trace[i].rejected
AnsweredWith(op, S) ==
    \E i \in DOMAIN trace :
        /\ trace[i].ev = "ret" /\ trace[i].op = op /\ trace[i].arg = "fetch"
        /\ ~trace[i].rejected /\ trace[i].status \in S

SuccessStatuses == 200..299
NonSuccessStatuses == (100..599) \ SuccessStatuses

HasMessage == request.method = "POST" /\ request.body = "message"
HmEnded == pc \in {"hm_exit", "responded"} /\ hmResult # "none"
Responded == pc = "responded"

C2_ProcessingFailureNeverAborts ==
    Returned("sendMessage", "processing") => CalledOp("generateSpeech")

\* C3 (as stated): no failure of a text notification leaves handleMessage:
\* handleMessage ends by throwing only when the voice upload failed.
C3_NotificationFailureNeverEscapes ==
    (HmEnded /\ hmResult = "threw") =>
        \/ Rejected("sendVoiceMessage", "fetch")
        \/ Rejected("sendVoiceMessage", "json")
        \/ AnsweredWith("sendVoiceMessage", NonSuccessStatuses)

\* C4: a message whose text is absent, empty or only white space gets the
\* "please send text" notification, the run is Aborted, and neither
\* generateSpeech nor sendVoiceMessage is ever invoked.
BlankText(text) ==
    ~text.present \/ \A i \in DOMAIN text.chars : text.chars[i] = " "

C4_BlankTextRejected ==
    (HasMessage /\ BlankText(request.text) /\ pc \notin {"fetch", "handleMessage"}) =>
        /\ trace[1] = CallEv("sendMessage", "please")
        /\ state = "Aborted"
        /\ ~CalledOp("generateSpeech")
        /\ ~CalledOp("pcmToWav")
        /\ ~CalledOp("sendVoiceMessage")

C4_Witness ==
    /\ HasMessage
    /\ request.text = Text(<<" ">>)
    /\ Responded
    /\ Returned("sendMessage", "please")

\* C5: the text "/start", and no other text, gets the welcome notification;
\* a "/start" run sends no processing notification and calls neither
\* generateSpeech nor sendVoiceMessage.
C5_StartCommand ==
    (HasMessage /\ pc \notin {"fetch", "handleMessage"}) =>
        IF request.text = Text(<<"/", "s", "t", "a", "r", "t">>)
        THEN /\ trace[1] = CallEv("sendMessage", "welcome")
             /\ ~Called("sendMessage", "processing")
             /\ ~CalledOp("generateSpeech")
             /\ ~CalledOp("sendVoiceMessage")
        ELSE ~Called("sendMessage", "welcome")

C5_Witness ==
    /\ HasMessage
    /\ request.text = Text(<<"/", "s", "t", "a", "r", "t">>)
    /\ Responded
    /\ Returned("sendMessage", "welcome")

\* C6: when the provider answers with a non-success status, generateSpeech
\* returns null, the "failed to generate speech" notification is sent, and
\* neither pcmToWav nor sendVoiceMessage is invoked.
C6_ProviderNonSuccess ==
    AnsweredWith("generateSpeech", NonSuccessStatuses) =>
        /\ audioData.isNull
        /\ Called("sendMessage", "failed")
        /\ ~CalledOp("pcmToWav")
        /\ ~CalledOp("sendVoiceMessage")

C6_Witness ==
    /\ AnsweredWith("generateSpeech", NonSuccessStatuses)
    /\ Returned("sendMessage", "failed")
    /\ Responded

\* C7: when the provider answers with success and a body that lacks a step of
\* the path to the audio payload, or whose payload is the empty string,
\* generateSpeech returns null and neither pcmToWav nor sendVoiceMessage is
\* invoked.
NoAudioPayload(body) == body.depth < 7 \/ body.payload = <<>>

C7_MissingAudioPayload ==
    (/\ AnsweredWith("generateSpeech", SuccessStatuses)
     /\ Returned("generateSpeech", "json")
     /\ ~Rejected("generateSpeech", "json")
     /\ NoAudioPayload(data)) =>
        /\ audioData.isNull
        /\ Called("sendMessage", "failed")
        /\ ~CalledOp("pcmToWav")
        /\ ~CalledOp("sendVoiceMessage")

C7_Witness ==
    /\ Returned("generateSpeech", "json")
    /\ ~Rejected("generateSpeech", "json")
    /\ data.depth = 7
    /\ data.payload = <<>>
    /\ Responded

\* C8 (as stated): when synthesis succeeds and the upload is answered with a
\* success status, the run ends in Done, its only text notification is the
\* "processing" one, and no sendMessage follows the upload.
C8_SuccessSendsNoFailureNotice ==
    (/\ HmEnded
     /\ ~audioData.isNull
     /\ AnsweredWith("sendVoiceMessage", SuccessStatuses)) =>
        /\ state = "Done"
        /\ \A i \in DOMAIN trace :
              (trace[i].ev = "call" /\ trace[i].op = "sendMessage")
                  => trace[i].arg = "processing"

\* Header fields read back as little-endian unsigned integers.
ReadUint16(a, offset) == a[offset] + a[offset + 1] * 256
ReadUint32(a, offset) ==
    a[offset] + a[offset + 1] * 256 + a[offset + 2] * 65536
    + a[offset + 3] * 16777216
BytesAt(a, offset) == <<a[offset], a[offset + 1], a[offset + 2], a[offset + 3]>>

WavAsClaimed(out, pcm, R, C) ==
    LET L == ByteLength(pcm)
    IN  /\ ByteLength(out) = L + 44
        /\ DOMAIN out = 0..(L + 43)
        /\ BytesAt(out, 0) = <<82, 73, 70, 70>>
        /\ ReadUint32(out, 4) = 36 + L
        /\ BytesAt(out, 8) = <<87, 65, 86, 69>>
        /\ BytesAt(out, 12) = <<102, 109, 116, 32>>
        /\ ReadUint32(out, 16) = 16
        /\ ReadUint16(out, 20) = 1
        /\ ReadUint16(out, 22) = C
        /\ ReadUint32(out, 24) = R
        /\ ReadUint32(out, 28) = R * C * 2
        /\ ReadUint16(out, 32) = C * 2
        /\ ReadUint16(out, 34) = 16
        /\ BytesAt(out, 36) = <<100, 97, 116, 97>>
        /\ ReadUint32(out, 40) = L
        /\ \A i \in 0..(L - 1) : out[44 + i] = pcm[i]

WavExample ==
    (encIn = [pcm |-> [i \in 0..3 |-> i + 1], sampleRate |-> 24000, channels |-> 1]) =>
        /\ ByteLength(encOut) = 48
        /\ BytesAt(encOut, 4) = <<40, 0, 0, 0>>
        /\ BytesAt(encOut, 40) = <<4, 0, 0, 0>>

\* Every header value fits the field that stores it.
FieldsFit(pcm, R, C) ==
    /\ C < 65536
    /\ C * 2 < 65536
    /\ R \div 65536 < 65536
    /\ (R * C * 2) \div 65536 < 65536
    /\ (36 + ByteLength(pcm)) \div 65536 < 65536

\* C9 (as stated): for every buffer, sample rate and channel count, pcmToWav
\* returns L+44 bytes: the 44-byte header with fileSize = 36+L, byteRate =
\* R*C*2, blockAlign = C*2 and dataSize = L, little-endian, then the input
\* bytes unchanged; the 4-byte example gives 48 bytes.
C9_WavLayoutForEveryInput ==
    (pc = "wav_done") =>
        /\ WavAsClaimed(encOut, encIn.pcm, encIn.sampleRate, encIn.channels)
        /\ WavExample

\* C9 (amended): the same, for every buffer, sample rate and channel count
\* whose header values fit their fields (C*2 < 2^16; R, R*C*2 and 36+L < 2^32).
C9_WavLayoutWhenFieldsFit ==
    (pc = "wav_done" /\ FieldsFit(encIn.pcm, encIn.sampleRate, encIn.channels)) =>
        /\ WavAsClaimed(encOut, encIn.pcm, encIn.sampleRate, encIn.channels)
        /\ WavExample

C9_Witness ==
    /\ pc = "wav_done"
    /\ encIn = [pcm |-> [i \in 0..3 |-> i + 1], sampleRate |-> 24000, channels |-> 1]
    /\ ByteLength(encOut) = 48

\* C10 (as stated): a decoded buffer whose length is not a multiple of
\* channels x 2 is a fatal encoding error: the run ends Aborted and
\* sendVoiceMessage is never invoked with a container built from it.
C10_MisalignedBufferIsFatal ==
    (CalledOp("pcmToWav") /\ ByteLength(encIn.pcm) % (encIn.channels * 2) # 0) =>
        /\ ~CalledOp("sendVoiceMessage")
        /\ HmEnded => state = "Aborted"

\* C11 (as stated): for every POST that carries a message the fetch handler
\* returns the same acknowledgment, whatever the pipeline outcome.
C11_SameAckForEveryOutcome ==
    (HasMessage /\ Responded) => ack = 200

\* C12: the stages of one invocation are a strict chain. A call starts only
\* when the call before it has returned; the provider call starts after the
\* "processing" notification has returned; pcmToWav runs after the provider
\* has answered with success and its body has been read; sendVoiceMessage
\* starts right after pcmToWav has returned.
ExternalOps == {"sendMessage", "generateSpeech", "sendVoiceMessage"}

SettledBetween(i, j) ==
    \E k \in (i + 1)..(j - 1) :
        /\ trace[k].ev = "ret"
        /\ trace[k].op = trace[i].op
        /\ trace[k].arg = IF trace[i].op = "sendMessage" THEN trace[i].arg ELSE "fetch"

C12_SequentialChain ==
    \A j \in DOMAIN trace :
        trace[j].ev = "call" =>
            /\ j > 1 => trace[j - 1].ev = "ret"
            /\ \A i \in 1..(j - 1) :
                  (trace[i].ev = "call" /\ trace[i].op \in ExternalOps)
                      => SettledBetween(i, j)
            /\ trace[j].op = "generateSpeech" =>
                  \E i \in 1..(j - 1) :
                      /\ trace[i].ev = "ret" /\ trace[i].op = "sendMessage"
                      /\ trace[i].arg = "processing"
            /\ trace[j].op = "pcmToWav" =>
                  /\ \E i \in 1..(j - 1) :
                        /\ trace[i].ev = "ret" /\ trace[i].op = "generateSpeech"
                        /\ trace[i].arg = "fetch" /\ ~trace[i].rejected
                        /\ trace[i].status \in SuccessStatuses
                  /\ trace[j - 1].ev = "ret" /\ trace[j - 1].op = "generateSpeech"
                  /\ trace[j - 1].arg = "json" /\ ~trace[j - 1].rejected
            /\ trace[j].op = "sendVoiceMessage" =>
                  trace[j - 1].ev = "ret" /\ trace[j - 1].op = "pcmToWav"

C12_Witness ==
    /\ Responded
    /\ state = "Done"
    /\ Returned("sendMessage", "processing")
    /\ Returned("pcmToWav", "encode")
    /\ Returned("sendVoiceMessage", "json")

\* C13: no retries, and Aborted is terminal. The provider is called at most
\* once and the upload attempted at most once; once the run is Aborted it
\* stays Aborted and makes no further provider or upload call.
CallCount(op) ==
    Cardinality({i \in DOMAIN trace : trace[i].ev = "call" /\ trace[i].op = op})

C13_NoRetryAbortedTerminal ==
    [][/\ CallCount("generateSpeech")' <= 1
       /\ CallCount("sendVoiceMessage")' <= 1
       /\ state = "Aborted" =>
             /\ state' = "Aborted"
             /\ CallCount("generateSpeech")' = CallCount("generateSpeech")
             /\ CallCount("sendVoiceMessage")' = CallCount("sendVoiceMessage")]_vars

C13_Witness ==
    /\ Responded
    /\ state = "Aborted"
    /\ CallCount("generateSpeech") = 1
    /\ CallCount("sendVoiceMessage") = 1
    /\ Called("sendMessage", "generic")

\* C14: when every external call eventually returns or fails, every
\* invocation of handleMessage eventually ends, in Done or in Aborted.
C14_EventuallyTerminal ==
    (pc = "handleMessage") ~> (HmEnded /\ state \in {"Done", "Aborted"})

C14_Witness ==
    /\ HmEnded
    /\ state = "Done"
    /\ hmResult = "returned"

\* C15: with two invocations interleaved at their awaits, every call of an
\* invocation addresses its own conversation, and two invocations that got the
\* same text, the same outcomes of their external calls and the same provider
\* body made the same calls and ended the same way: nothing of one invocation
\* depends on the other.
OwnChat(c) == \A i \in DOMAIN c.trace : c.trace[i].chat = c.request.chatId

Outcomes(c) ==
    LET rets == SelectSeq(c.trace,
                          LAMBDA e : e.ev = "ret" /\ e.op \in ExternalOps)
    IN  [i \in DOMAIN rets |->
            [rejected |-> rets[i].rejected, status |-> rets[i].status]]

Calls(c) ==
    LET calls == SelectSeq(c.trace, LAMBDA e : e.ev = "call")
    IN  [i \in DOMAIN calls |-> [op |-> calls[i].op, arg |-> calls[i].arg]]

SameRun(a, b) ==
    (/\ a.pc = "responded" /\ b.pc = "responded"
     /\ a.request.text = b.request.text
     /\ Outcomes(a) = Outcomes(b)
     /\ a.data = b.data) =>
        /\ Calls(a) = Calls(b)
        /\ a.state = b.state
        /\ a.hmResult = b.hmResult
        /\ a.ack = b.ack
        /\ a.audioData = b.audioData

C15_InvocationsIndependent ==
    /\ OwnChat(Context)
    /\ parked.pc # "absent" => OwnChat(parked) /\ SameRun(Context, parked)

C15_Witness ==
    /\ pc = "responded" /\ parked.pc = "responded"
    /\ request.chatId # parked.request.chatId
    /\ state = "Done" /\ parked.state = "Aborted"
    /\ CalledOp("sendVoiceMessage")
    /\ \E i \in DOMAIN parked.trace : parked.trace[i].op = "sendVoiceMessage"

\* C16: a network failure reaching the provider, or a payload that is not
\* valid base64, ends inside generateSpeech as a synthesis failure: the next
\* call is the "failed to generate speech" notification, nothing is encoded
\* or uploaded, and the generic error notification is sent only if that
\* notification's own fetch rejects.
Undecodable(p) ==
    LET q == SelectSeq(p, LAMBDA c : c # " ")
        pad == IF Len(q) > 0 /\ Len(q) % 4 = 0 /\ q[Len(q)] = "="
               THEN (IF q[Len(q) - 1] = "=" THEN 2 ELSE 1)
               ELSE 0
        n == Len(q) - pad
    IN  n % 4 = 1 \/ \E i \in 1..n : q[i] \notin B64Chars

ProviderUnreachable == Rejected("generateSpeech", "fetch")
PayloadUndecodable ==
    /\ Returned("generateSpeech", "json")
    /\ ~Rejected("generateSpeech", "json")
    /\ data.depth = 7
    /\ data.payload # <<>>
    /\ Undecodable(data.payload)

C16_SynthesisFailureCaught ==
    (ProviderUnreachable \/ PayloadUndecodable) =>
        /\ audioData.isNull
        /\ ~CalledOp("pcmToWav")
        /\ ~CalledOp("sendVoiceMessage")
        /\ \E k \in 1..(Len(trace) - 1) :
              /\ trace[k].ev = "ret" /\ trace[k].op = "generateSpeech"
              /\ trace[k + 1] = CallEv("sendMessage", "failed")
        /\ Called("sendMessage", "generic") => Rejected("sendMessage", "failed")

C16_Witness ==
    /\ PayloadUndecodable
    /\ data.payload = <<"A", "=">>
    /\ Responded
    /\ Returned("sendMessage", "failed")
    /\ ~Called("sendMessage", "generic")

\* The header fields as stored, read back little-endian.
StoredFileSize == ReadUint32(encOut, 4)
StoredChannels == ReadUint16(encOut, 22)
StoredSampleRate == ReadUint32(encOut, 24)
StoredByteRate == ReadUint32(encOut, 28)
StoredBlockAlign == ReadUint16(encOut, 32)
StoredDataSize == ReadUint32(encOut, 40)

HeaderConsistent ==
    /\ StoredFileSize = 36 + StoredDataSize
    /\ StoredByteRate = StoredSampleRate * StoredBlockAlign
    /\ StoredBlockAlign = StoredChannels * 2

NoNotificationFailed ==
    \A i \in DOMAIN trace :
        (trace[i].ev = "ret" /\ trace[i].op = "sendMessage") =>
            ~trace[i].rejected /\ trace[i].status \in SuccessStatuses

TerminalSignals ==
    {m \in {"welcome", "please", "failed", "generic"} : Called("sendMessage", m)}
    \cup {v \in {"voice"} : AnsweredWith("sendVoiceMessage", SuccessStatuses)}

C18_ExactlyOneTerminalSignal ==
    (HasMessage /\ HmEnded /\ NoNotificationFailed) =>
        Cardinality(TerminalSignals) = 1

\* C19: only a POST whose body parses and has a message runs the pipeline.
\* A GET is answered 200, any other method 405 and a POST update without a
\* message 200, each without any outbound call.
PipelinePcs ==
    {"handleMessage", "await_welcome", "await_please", "await_processing",
     "await_failed", "await_generic", "await_gemini", "await_gemini_json",
     "await_voice", "await_voice_json", "hm_exit"}

C19_OnlyMessagePostRunsPipeline ==
    /\ (pc \in PipelinePcs \/ trace # <<>> \/ hmResult # "none") =>
          (request.method = "POST" /\ request.body = "message")
    /\ (Responded /\ request.method = "GET") => ack = 200
    /\ (Responded /\ request.method \notin {"GET", "POST"}) => ack = 405
    /\ (Responded /\ request.method = "POST" /\ request.body = "nomessage") =>
          ack = 200

C19_Witness ==
    /\ Responded
    /\ request.method = "POST"
    /\ request.body = "nomessage"
    /\ trace = <<>>
    /\ ack = 200

====
